---- MODULE Spec2Model ----
(***************************************************************************)
(* A model of src/src/HmKitCrypto.js: the signature codec (fillSignature,  *)
(* stripSignature and the byte normalisers), key generation, session key   *)
(* derivation and the keystream cipher encryptDecrypt.                     *)
(*                                                                         *)
(* Buffers are sequences of bytes (0..255).  JavaScript indexes buffers    *)
(* from 0; At and Slice take the code's 0-based indexes.  The module is    *)
(* stateless: every exported function is a call with its own frame, so the *)
(* state is the frame of the current call (op, pc, args, locals, ret) and  *)
(* the frame of the call before it when the current call was made on its   *)
(* result (prev).                                                          *)
(***************************************************************************)
EXTENDS Integers, Sequences, FiniteSets, TLC

VARIABLES op, pc, args, locals, ret, prev

vars == <<op, pc, args, locals, ret, prev>>

(***************************************************************************)
(* JavaScript values that are not bytes.                                   *)
(***************************************************************************)
\* buffer[i] for an index outside the buffer
Undefined == -1
\* the result of arithmetic on undefined
NaN == -2

IsNumber(x) == x >= 0

\* a + b of lines 123, 124, 129: NaN as soon as one operand is not a number
JsAdd(a, b) == IF IsNumber(a) /\ IsNumber(b) THEN a + b ELSE NaN

\* buffer[i], 0-based; undefined outside the buffer (and for a NaN index)
At(buf, i) == IF IsNumber(i) /\ i < Len(buf) THEN buf[i + 1] ELSE Undefined

\* the integer a Buffer.slice bound is coerced to: NaN becomes 0, and the
\* bound is clamped to the buffer
SliceBound(buf, x) ==
  IF ~IsNumber(x) THEN 0 ELSE IF x > Len(buf) THEN Len(buf) ELSE x

\* buf.slice(start, end): empty when end <= start after coercion
Slice(buf, start, end) ==
  LET s == SliceBound(buf, start)
      e == SliceBound(buf, end)
  IN IF e <= s THEN <<>> ELSE SubSeq(buf, s + 1, e)

\* Buffer.alloc(n).fill([0])
Zeros(n) == [i \in 1..n |-> 0]

RECURSIVE BitAnd(_, _)
\* a & b on non-negative integers
BitAnd(a, b) ==
  IF a = 0 \/ b = 0 THEN 0
  ELSE (a % 2) * (b % 2) + 2 * BitAnd(a \div 2, b \div 2)

RECURSIVE BitXor(_, _)
\* a ^ b on non-negative integers
BitXor(a, b) ==
  IF a = 0 THEN b
  ELSE IF b = 0 THEN a
  ELSE ((a + b) % 2) + 2 * BitXor(a \div 2, b \div 2)

\* ToInt32 of an operand of & or ^: undefined and NaN are 0
ToInt(x) == IF IsNumber(x) THEN x ELSE 0

(***************************************************************************)
(* Program constants.                                                      *)
(***************************************************************************)
\* fixSizeTo32: const size = 32
Size32 == 32
\* fill64Blocks: const size = 64
Size64 == 64
\* the sign bit tested by prependZeroIfNeeded
HighBit == 128
\* the block size of aes-128-ecb, in bytes
BlockSize == 16
\* encryptionKey = sessionKeyValue.slice(0, 16)
KeySize == 16
\* iv = nonce.slice(0, 7) ++ nonce
IvPrefix == 7
\* makeSurePrivateKeyIs32: privateKey.length === 31
ShortKeyLen == 31

(***************************************************************************)
(* Byte normalisers (lines 143-172).                                       *)
(***************************************************************************)
RECURSIVE RemoveLoop(_, _, _)
\* the while loop of removeLeftZeros: i counts the bytes dropped so far and
\* newBytes[0] is undefined once newBytes is empty
RemoveLoop(bytes, i, newBytes) ==
  IF i < Len(bytes) /\ At(newBytes, 0) = 0
  THEN RemoveLoop(bytes, i + 1, Slice(bytes, i + 1, Len(bytes)))
  ELSE newBytes

removeLeftZeros(bytes) == RemoveLoop(bytes, 0, bytes)

\* prependZeroIfNeeded without its sign guard
prependZeroIfNeeded_NoGuard(bytes) == removeLeftZeros(bytes)

prependZeroIfNeeded(bytes) ==
  LET b == removeLeftZeros(bytes)
  IN IF BitAnd(ToInt(At(b, 0)), HighBit) = HighBit THEN <<0>> \o b ELSE b

\* fixSizeTo32 keeping the first 32 bytes of a longer buffer, not the last
fixSizeTo32_KeepHead(binary) ==
  IF Len(binary) = Size32 THEN binary
  ELSE IF Len(binary) > Size32
       THEN Slice(binary, 0, Size32)
       ELSE Zeros(Size32 - Len(binary)) \o binary

fixSizeTo32(binary) ==
  IF Len(binary) = Size32 THEN binary
  ELSE IF Len(binary) > Size32
       THEN Slice(binary, Len(binary) - Size32, Len(binary))
       ELSE Zeros(Size32 - Len(binary)) \o binary

(***************************************************************************)
(* DER signature codec (lines 120-141).                                    *)
(***************************************************************************)
fillSignature(shortSignature) ==
  LET vr == prependZeroIfNeeded(Slice(shortSignature, 0, 32))
      vs == prependZeroIfNeeded(Slice(shortSignature, 32, 64))
      b2 == Len(vr)
      b3 == Len(vs)
      b1 == 4 + b2 + b3
  IN <<48, b1, 2, b2>> \o vr \o <<2, b3>> \o vs

\* The locals of stripSignature, as the code computes them.
stripFrame(signature) ==
  LET secVrSize == At(signature, 3)
      secVr     == Slice(signature, 4, JsAdd(4, secVrSize))
      idxTag    == JsAdd(3, JsAdd(secVrSize, 1))
      idxSize   == JsAdd(idxTag, 1)
      secVsSize == At(signature, idxSize)
      idxVs     == JsAdd(idxSize, 1)
      secVs     == Slice(signature, idxVs, JsAdd(idxVs, secVsSize))
  IN [secVrSize |-> secVrSize, secVr |-> secVr,
      secVsSize |-> secVsSize, secVs |-> secVs, idxVs |-> idxVs]

stripSignature(signature) ==
  LET f == stripFrame(signature)
  IN fixSizeTo32(f.secVr) \o fixSizeTo32(f.secVs)

(***************************************************************************)
(* Key generation (lines 27-34, 174-184).                                  *)
(***************************************************************************)
stripPublicKey(publicKey) == Slice(publicKey, 1, Len(publicKey))

makeSurePrivateKeyIs32(privateKey) ==
  IF Len(privateKey) = ShortKeyLen THEN <<0>> \o privateKey ELSE privateKey

\* generateKeys on what ecdh.getPrivateKey() and ecdh.getPublicKey() return
generateKeys(ecdhPrivateKey, ecdhPublicKey) ==
  [privateKey |-> makeSurePrivateKeyIs32(ecdhPrivateKey),
   publicKey  |-> stripPublicKey(ecdhPublicKey)]

(***************************************************************************)
(* Session key derivation (lines 36-47, 96-98, 110-118).  ECDH and         *)
(* HMAC-SHA256 are external; they are modelled as collision-free           *)
(* functions: a result is the term of its inputs together with the window *)
(* of its bytes that the buffer holds, so two results are equal exactly    *)
(* when the inputs are.                                                    *)
(***************************************************************************)
\* the number of bytes of an external primitive's result
TermLen(b) == b.to - b.from

\* b.slice(start, end) on an external primitive's result
TermSlice(b, start, end) ==
  LET n == TermLen(b)
      s == IF start > n THEN n ELSE start
      e == IF end > n THEN n ELSE end
  IN [b EXCEPT !.from = b.from + s, !.to = b.from + (IF e < s THEN s ELSE e)]

fill64Blocks(message) ==
  IF Len(message) % Size64 = 0 THEN message
  ELSE message \o Zeros(Size64 - (Len(message) % Size64))

\* keyWithPriv.computeSecret(0x04 ++ publicKey): a 32-byte secret
computeSecret(privateKey, publicKey) ==
  [term |-> [ecdh |-> "prime256v1", privateKey |-> privateKey,
             point |-> <<4>> \o publicKey],
   from |-> 0, to |-> Size32]

\* hmac on the message as given, not padded
hmac_NoPad(key, message) ==
  [term |-> [hmac |-> "sha256", key |-> key, data |-> message],
   from |-> 0, to |-> Size32]

\* createHmac('sha256', key).update(fill64Blocks(message)).digest()
hmac(key, message) ==
  [term |-> [hmac |-> "sha256", key |-> key, data |-> fill64Blocks(message)],
   from |-> 0, to |-> Size32]

sessionKey(privateKey, publicKey, nonce) ==
  hmac(computeSecret(privateKey, publicKey), nonce)

(***************************************************************************)
(* The keystream cipher (lines 80-94, 186-193).  AES-128 is external; one  *)
(* block encryption is modelled as a keyed bijection on 16-byte blocks.    *)
(***************************************************************************)
RECURSIVE SumSeq(_)
SumSeq(s) == IF s = <<>> THEN 0 ELSE Head(s) + SumSeq(Tail(s))

\* a number drawn from every input of the session key the AES key is cut
\* from, and from the window cut
KeyMix(key) ==
  (SumSeq(key.term.data) + SumSeq(key.term.key.term.privateKey)
   + SumSeq(key.term.key.term.point) + key.from + 3 * key.to) % 256

\* AES-128 of one block under key
AesBlock(key, block) ==
  LET k == KeyMix(key)
  IN [i \in 1..BlockSize |-> (block[BlockSize + 1 - i] + k + 7 * i) % 256]

RECURSIVE EcbBlocks(_, _, _)
EcbBlocks(key, data, n) ==
  IF n = 0 THEN <<>>
  ELSE EcbBlocks(key, data, n - 1)
       \o AesBlock(key, SubSeq(data, BlockSize * (n - 1) + 1, BlockSize * n))

\* a cipher that outputs the first block only
cipherUpdate_OneBlock(key, data) ==
  IF Len(data) < BlockSize THEN <<>> ELSE EcbBlocks(key, data, 1)

\* createCipheriv('aes-128-ecb', key, '').update(data): the encryption of
\* the complete blocks of data; a trailing partial block stays buffered in
\* the cipher and is never output (final() is not called)
cipherUpdate(key, data) == EcbBlocks(key, data, Len(data) \div BlockSize)

ivOf(nonce) == Slice(nonce, 0, IvPrefix) \o nonce

xor(a, b) ==
  [i \in 1..Len(a) |-> BitXor(ToInt(a[i]), ToInt(At(b, i - 1)))]

\* lines 81-87 of encryptDecrypt: the locals before the tiling loop
encryptSetup(message, privateKey, publicKey, nonce) ==
  LET sessionKeyValue == sessionKey(privateKey, publicKey, nonce)
      encryptionKey   == TermSlice(sessionKeyValue, 0, KeySize)
      cipher          == cipherUpdate(encryptionKey, ivOf(nonce))
  IN [cipher |-> cipher, cipherWithSizeOfMessage |-> cipher]

\* line 89: the loop condition
tilingGuard(message, l) == Len(l.cipherWithSizeOfMessage) < Len(message)

\* line 90: one iteration of the loop
tilingStep(l) ==
  [l EXCEPT !.cipherWithSizeOfMessage = l.cipherWithSizeOfMessage \o l.cipher]

\* encryptFinish without the truncation of line 92
encryptFinish_NoTruncate(message, l) == xor(l.cipherWithSizeOfMessage, message)

\* lines 92-93
encryptFinish(message, l) ==
  xor(Slice(l.cipherWithSizeOfMessage, 0, Len(message)), message)

(***************************************************************************)
(* Bounds of the model and the inputs the calls are made on.               *)
(***************************************************************************)
\* r and s of a signature start with 0..MaxZeroRun zero bytes, or have
\* 0..MaxZeroRun bytes after their leading zero bytes; r also takes every
\* number of leading zero bytes
MaxZeroRun == 2
\* messages of encryptDecrypt are 0..MaxMsgLen bytes long
MaxMsgLen == 49
\* nonces of encryptDecrypt are 0..MaxNonceLen bytes long
MaxNonceLen == 41
\* nonces of sessionKey are 0..MaxSessionNonceLen bytes long, or about 64
MaxSessionNonceLen == 3
\* nonces of sessionKey end with 0..MaxTrailingZeros zero bytes
MaxTrailingZeros == 2
\* the contents of keys, messages and nonces are drawn from 0..MaxSeed
MaxSeed == 1
\* a DER buffer handed to stripSignature misses 0..MaxCut bytes at its end
MaxCut == 8

TailBytes == <<171, 205, 239, 0, 128, 1, 35, 69, 103>>

\* n bytes of contents, zero and high-bit bytes among them
Pattern(n, shift) ==
  [i \in 1..n |-> TailBytes[((i - 1 + shift) % Len(TailBytes)) + 1]]

\* n bytes of contents, none of them zero
NonZeroPattern(n, seed) == [i \in 1..n |-> ((i * 37 + seed * 11) % 255) + 1]

FirstBytes == {1, 127, 128, 137, 255}

\* a 32-byte r or s: k zero bytes, a first non-zero byte, contents
Component(k, first) ==
  IF k >= Size32 THEN Zeros(Size32)
  ELSE Zeros(k) \o <<first>> \o Pattern(Size32 - 1 - k, 0)

ShortZeroRuns ==
  {k \in 0..Size32 : k <= MaxZeroRun \/ k >= Size32 - MaxZeroRun}

RComponents == {Component(k, f) : k \in 0..Size32, f \in FirstBytes}

SComponents == {Component(k, f) : k \in ShortZeroRuns, f \in FirstBytes}

\* the DER buffers the external signer hands to stripSignature: encodings
\* of signatures, whole or cut short, or with a length byte set too high
SignerOutputs ==
  LET ders == {fillSignature(r \o s) :
                 r \in {Component(k, f) : k \in ShortZeroRuns, f \in {1, 128}},
                 s \in {Component(k, f) : k \in {0, Size32 - 1}, f \in {1, 128}}}
  IN {Slice(d, 0, Len(d) - c) : d \in ders, c \in 0..MaxCut}
     \cup {[d EXCEPT ![4] = d[4] + c] : d \in ders, c \in 1..MaxCut}

KeyPairs ==
  {[privateKey |-> Pattern(Size32, seed), publicKey |-> Pattern(Size64, seed + 1)] :
     seed \in 0..MaxSeed}

Messages ==
  {[i \in 1..n |-> (i * 29 + seed * 101) % 256] :
     n \in 0..MaxMsgLen, seed \in 0..MaxSeed}

CipherNonces == {NonZeroPattern(n, 0) : n \in 0..MaxNonceLen}

SessionNonceLens ==
  (0..MaxSessionNonceLen) \cup {9, Size64 - 1, Size64, Size64 + 1}

SessionNonces ==
  {NonZeroPattern(n - z, seed) \o Zeros(z) :
     n \in SessionNonceLens, z \in 0..MaxTrailingZeros, seed \in 0..MaxSeed}

(***************************************************************************)
(* The calls.  A call is made when no call is in progress; a call that has *)
(* returned is followed by a call on its result or its frame is dropped; a *)
(* call that never returns leaves nothing to follow it.                    *)
(***************************************************************************)
None == [op |-> "none"]

Frame == [op |-> op, args |-> args, locals |-> locals, ret |-> ret]

Init ==
  /\ op = "none"
  /\ pc = "done"
  /\ args = <<>>
  /\ locals = <<>>
  /\ ret = <<>>
  /\ prev = None

\* generateKeys (lines 27-34): the external ECDH primitive returns the
\* private scalar big-endian without its leading zero bytes and the public
\* point as 65 bytes, 0x04 first
GenerateKeys ==
  /\ op = "none"
  /\ \E n \in 1..Size32, first \in {1, 255}, seed \in 0..MaxSeed :
       LET ecdhPrivateKey == <<first>> \o Pattern(n - 1, seed)
           ecdhPublicKey  == <<4>> \o Pattern(Size64, seed)
       IN /\ args' = <<>>
          /\ locals' = [ecdhPrivateKey |-> ecdhPrivateKey,
                        ecdhPublicKey |-> ecdhPublicKey]
          /\ ret' = generateKeys(ecdhPrivateKey, ecdhPublicKey)
  /\ op' = "generateKeys"
  /\ pc' = "done"
  /\ prev' = None

\* verify (lines 71-78): the signature is encoded and handed to the
\* external verifier, whose verdict is the result
Verify ==
  /\ op = "none"
  /\ \E r \in RComponents, s \in SComponents, verdict \in BOOLEAN :
       /\ args' = [signature |-> r \o s]
       /\ locals' = [signature |-> fillSignature(r \o s)]
       /\ ret' = verdict
  /\ op' = "verify"
  /\ pc' = "done"
  /\ prev' = None

\* sign (lines 64-69): the external signer's DER buffer is decoded
Sign ==
  /\ op = "none"
  /\ \E der \in SignerOutputs :
       /\ locals' = [signature |-> der]
       /\ ret' = stripSignature(der)
  /\ args' = <<>>
  /\ op' = "sign"
  /\ pc' = "done"
  /\ prev' = None

\* stripSignature (lines 120-132) on the buffer the verify before it
\* encoded
StripEncoded ==
  /\ pc = "done"
  /\ op = "verify"
  /\ locals' = [signature |-> locals.signature]
  /\ ret' = stripSignature(locals.signature)
  /\ args' = <<>>
  /\ op' = "stripSignature"
  /\ pc' = "done"
  /\ prev' = Frame

\* sessionKey (lines 96-98)
SessionKey ==
  /\ op = "none"
  /\ \E kp \in KeyPairs, nonce \in SessionNonces :
       /\ args' = [privateKey |-> kp.privateKey, publicKey |-> kp.publicKey,
                   nonce |-> nonce]
       /\ ret' = sessionKey(kp.privateKey, kp.publicKey, nonce)
  /\ locals' = <<>>
  /\ op' = "sessionKey"
  /\ pc' = "done"
  /\ prev' = None

\* a second sessionKey call, the first one remembered
SessionKeyAgain ==
  /\ pc = "done"
  /\ op = "sessionKey"
  /\ prev = None
  /\ \E kp \in KeyPairs, nonce \in SessionNonces :
       /\ args' = [privateKey |-> kp.privateKey, publicKey |-> kp.publicKey,
                   nonce |-> nonce]
       /\ ret' = sessionKey(kp.privateKey, kp.publicKey, nonce)
  /\ locals' = <<>>
  /\ op' = "sessionKey"
  /\ pc' = "done"
  /\ prev' = Frame

\* encryptDecrypt, lines 81-87: up to the tiling loop
EncryptDecrypt ==
  /\ op = "none"
  /\ \E message \in Messages, kp \in KeyPairs, nonce \in CipherNonces :
       /\ args' = [message |-> message, privateKey |-> kp.privateKey,
                   publicKey |-> kp.publicKey, nonce |-> nonce]
       /\ locals' = encryptSetup(message, kp.privateKey, kp.publicKey, nonce)
  /\ ret' = <<>>
  /\ op' = "encryptDecrypt"
  /\ pc' = "tiling"
  /\ prev' = None

\* encryptDecrypt on the output of the encryptDecrypt before it, with the
\* same keys and nonce
EncryptDecryptAgain ==
  /\ pc = "done"
  /\ op = "encryptDecrypt"
  /\ prev = None
  /\ args' = [args EXCEPT !.message = ret]
  /\ locals' = encryptSetup(ret, args.privateKey, args.publicKey, args.nonce)
  /\ ret' = <<>>
  /\ op' = "encryptDecrypt"
  /\ pc' = "tiling"
  /\ prev' = Frame

\* encryptDecrypt, lines 89-91: one iteration of the tiling loop
Tile ==
  /\ pc = "tiling"
  /\ tilingGuard(args.message, locals)
  /\ locals' = tilingStep(locals)
  /\ UNCHANGED <<op, pc, args, ret, prev>>

\* encryptDecrypt, lines 92-93: the loop is left and the result returned
Return ==
  /\ pc = "tiling"
  /\ ~tilingGuard(args.message, locals)
  /\ ret' = encryptFinish(args.message, locals)
  /\ pc' = "done"
  /\ UNCHANGED <<op, args, locals, prev>>

\* the frame of a call that has returned is dropped: nothing is kept
\* between calls
Discard ==
  /\ pc = "done"
  /\ op # "none"
  /\ op' = "none"
  /\ pc' = "done"
  /\ args' = <<>>
  /\ locals' = <<>>
  /\ ret' = <<>>
  /\ prev' = None

Next ==
  \/ GenerateKeys
  \/ Verify
  \/ Sign
  \/ StripEncoded
  \/ SessionKey
  \/ SessionKeyAgain
  \/ EncryptDecrypt
  \/ EncryptDecryptAgain
  \/ Tile
  \/ Return
  \/ Discard

Spec == Init /\ [][Next]_vars

(***************************************************************************)
(* Properties.                                                             *)
(***************************************************************************)
R(sig) == SubSeq(sig, 1, Size32)
S(sig) == SubSeq(sig, Size32 + 1, 2 * Size32)

\* the length byte of the INTEGER r of a DER signature, and of its INTEGER s
DerLenR(der) == der[4]
DerLenS(der) == der[6 + DerLenR(der)]

\* C1: decoding the DER encoding of a 64-byte signature returns the
\* signature unchanged, whatever the leading zero bytes and high bits of r
\* and s.
C1_RoundTrip ==
  (op = "stripSignature" /\ prev.op = "verify") => ret = prev.args.signature

\* an all-zero r and an s with leading zero bytes before a high-bit byte
\* made the round trip
C1_Witness ==
  /\ op = "stripSignature"
  /\ prev.op = "verify"
  /\ prev.args.signature = Component(Size32, 1) \o Component(2, 255)
  /\ ret = prev.args.signature

\* the encryptDecrypt calls that C2 and C8 are about: the nonce is at least
\* 9 bytes long, so that the IV holds a whole cipher block
LongNonce == Len(ivOf(args.nonce)) >= BlockSize

\* C2: with a nonce of at least 9 bytes, the output of encryptDecrypt is as
\* long as the message, and encryptDecrypt on that output with the same
\* keys and nonce returns the message.
C2_Symmetry ==
  (op = "encryptDecrypt" /\ pc = "done" /\ LongNonce) =>
    /\ Len(ret) = Len(args.message)
    /\ prev.op = "encryptDecrypt" => ret = prev.args.message

\* a message of more than one block came back from the second call, and
\* the intermediate output differed from it
C2_Witness ==
  /\ op = "encryptDecrypt"
  /\ pc = "done"
  /\ prev.op = "encryptDecrypt"
  /\ Len(args.nonce) = 9
  /\ Len(ret) > BlockSize
  /\ ret = prev.args.message
  /\ args.message # ret

\* C3: generateKeys returns a private key of exactly 32 bytes and a public
\* key of exactly 64 bytes, whatever the length (1 to 32) of the scalar the
\* ECDH primitive returns.
C3_KeyLengths ==
  op = "generateKeys" =>
    Len(ret.privateKey) = Size32 /\ Len(ret.publicKey) = Size64

\* the r of the concrete vector: 0x00 0x89 0xab ...
IsVector(sig) == sig[1] = 0 /\ sig[2] = 137 /\ sig[3] = 171

\* what C4 says of the vector but for the length of the INTEGER r: a 0x00
\* sign guard before the 31 significant bytes, and r back from the decoder
VectorEncoded(n) ==
  /\ (op = "verify" /\ IsVector(args.signature)) =>
       /\ locals.signature[3] = 2
       /\ DerLenR(locals.signature) = n
       /\ locals.signature[5] = 0
       /\ SubSeq(locals.signature, 6, 36) = SubSeq(args.signature, 2, Size32)
  /\ (op = "stripSignature" /\ IsVector(prev.args.signature)) =>
       R(ret) = R(prev.args.signature)

\* C4 (as stated): the r 0x00 0x89 0xab ... is encoded as an INTEGER of
\* length 33 with a 0x00 sign guard, and decoded to the original r.
C4_Length33 == VectorEncoded(33)

\* C4 (amended): the r 0x00 0x89 0xab ... is encoded as an INTEGER of
\* length 32, the 0x00 sign guard before its 31 significant bytes, and
\* decoded to the original r.
C4_Length32 == VectorEncoded(32)

C4_Witness ==
  /\ op = "stripSignature"
  /\ IsVector(prev.args.signature)
  /\ DerLenR(prev.locals.signature) = 32
  /\ R(ret) = R(prev.args.signature)

\* C5: encryptDecrypt with a nonce too short for the IV to hold a cipher
\* block fails with InvalidNonceLength: it neither goes on with the short
\* IV nor returns.
C5_ShortNonceRejected ==
  (op = "encryptDecrypt" /\ ~LongNonce) => pc = "InvalidNonceLength"

\* the length bytes of a DER signature agree with the size of the buffer
LengthsConsistent(der) ==
  /\ Len(der) >= 6
  /\ der[2] = Len(der) - 2
  /\ 6 + DerLenR(der) <= Len(der)
  /\ 6 + DerLenR(der) + DerLenS(der) = Len(der)

\* C6: stripSignature on a buffer whose length bytes do not agree with its
\* size fails with InvalidSignatureEncoding: it reads no index outside the
\* buffer and returns no value.
C6_MalformedRejected ==
  (op = "sign" /\ ~LengthsConsistent(locals.signature)) =>
    pc = "InvalidSignatureEncoding"

RECURSIVE StripTrailingZeros(_)
StripTrailingZeros(s) ==
  IF s # <<>> /\ s[Len(s)] = 0
  THEN StripTrailingZeros(SubSeq(s, 1, Len(s) - 1))
  ELSE s

\* two nonces that are the same once padded with zero bytes to whole
\* 64-byte blocks
SamePadded(m, n) ==
  /\ StripTrailingZeros(m) = StripTrailingZeros(n)
  /\ (Len(m) + Size64 - 1) \div Size64 = (Len(n) + Size64 - 1) \div Size64

TwoSessionKeys ==
  /\ op = "sessionKey"
  /\ prev.op = "sessionKey"
  /\ args.privateKey = prev.args.privateKey
  /\ args.publicKey = prev.args.publicKey

\* C7 (as stated): two sessionKey calls with the same keys return the same
\* output for the same nonce and different outputs for different nonces.
C7_DifferentNonces ==
  TwoSessionKeys => (ret = prev.ret <=> args.nonce = prev.args.nonce)

\* C7 (amended): two sessionKey calls with the same keys return the same
\* output exactly when their nonces are the same once padded with zero
\* bytes to whole 64-byte blocks; so different nonces of one length give
\* different outputs.
C7_PaddedNonces ==
  TwoSessionKeys =>
    /\ ret = prev.ret <=> SamePadded(args.nonce, prev.args.nonce)
    /\ (Len(args.nonce) = Len(prev.args.nonce) /\ args.nonce # prev.args.nonce)
         => ret # prev.ret

\* two nonces that differ in a trailing zero byte gave one session key
C7_Witness ==
  /\ TwoSessionKeys
  /\ Len(args.nonce) = Len(prev.args.nonce) + 1
  /\ args.nonce[1] # 0
  /\ ret = prev.ret

\* the AES key of the call and the block cipher's output for each whole
\* block of the IV, in turn
EncryptionKey ==
  TermSlice(sessionKey(args.privateKey, args.publicKey, args.nonce), 0, KeySize)

IvBlock(j) == SubSeq(ivOf(args.nonce), BlockSize * (j - 1) + 1, BlockSize * j)

RECURSIVE BlocksUpTo(_)
BlocksUpTo(j) ==
  IF j = 0 THEN <<>>
  ELSE BlocksUpTo(j - 1) \o AesBlock(EncryptionKey, IvBlock(j))

Keystream == BlocksUpTo(Len(ivOf(args.nonce)) \div BlockSize)

\* C8 (as stated): with a nonce of at least 9 bytes, output byte i is
\* message byte i XOR byte i mod 16 of one block, the encryption of the
\* first 16 bytes of the IV.
C8_OneBlock ==
  (op = "encryptDecrypt" /\ pc = "done" /\ LongNonce) =>
    /\ Len(ret) = Len(args.message)
    /\ LET block == AesBlock(EncryptionKey, IvBlock(1))
       IN \A i \in 1..Len(ret) :
            ret[i] = BitXor(args.message[i], block[((i - 1) % BlockSize) + 1])

\* C8 (amended): with a nonce of at least 9 bytes, output byte i is message
\* byte i XOR byte i mod L of the encryption of every whole 16-byte block
\* of the IV, L = 16 * floor((7 + len(nonce)) / 16) bytes in all: one block
\* for nonces of 9 to 24 bytes, two or more from 25 bytes on.
C8_WholeBlocks ==
  (op = "encryptDecrypt" /\ pc = "done" /\ LongNonce) =>
    /\ Len(ret) = Len(args.message)
    /\ LET stream == Keystream
       IN /\ \A i \in 1..Len(ret) :
               ret[i] = BitXor(args.message[i], stream[((i - 1) % Len(stream)) + 1])
          /\ Len(stream) = BlockSize * ((IvPrefix + Len(args.nonce)) \div BlockSize)
          /\ Len(args.nonce) < 2 * BlockSize - IvPrefix => Len(stream) = BlockSize

\* a message longer than a block was encrypted under a 25-byte nonce, with
\* a keystream of two different blocks
C8_Witness ==
  /\ op = "encryptDecrypt"
  /\ pc = "done"
  /\ Len(args.nonce) = 25
  /\ Len(args.message) > BlockSize
  /\ Len(Keystream) = 2 * BlockSize
  /\ ret[BlockSize + 1] # BitXor(args.message[BlockSize + 1], Keystream[1])

\* C9: removeLeftZeros leaves at least one byte of a non-empty input, so
\* the INTEGERs of an encoded signature are at least one byte long.
C9_NeverEmpty ==
  op = "verify" =>
    /\ removeLeftZeros(R(args.signature)) # <<>>
    /\ removeLeftZeros(S(args.signature)) # <<>>
    /\ DerLenR(locals.signature) >= 1
    /\ DerLenS(locals.signature) >= 1

\* C10: every iteration of the tiling loop of encryptDecrypt makes the
\* keystream longer, so that the loop is left.
C10_TilingProgress ==
  (pc = "tiling" /\ tilingGuard(args.message, locals)) =>
    Len(tilingStep(locals).cipherWithSizeOfMessage)
      > Len(locals.cipherWithSizeOfMessage)

====
